---- MODULE Spec2Model ----
(***************************************************************************)
(* The simulation core of the worms demo (src/main.cpp): the destructible  *)
(* terrain grid, the scripted turn loop, the worm and projectile updates   *)
(* and the detonation of a projectile, together with the projectile        *)
(* component of the ECS variant (src/unnamed/part_001, part_003).          *)
(*                                                                         *)
(* Numbers.  The program computes in float.  The model holds a float as an *)
(* integer number of hundredths of a pixel (FP units per pixel) and        *)
(* computes with exact arithmetic on them, so 0.2f is 20 and 0.03f is 3;   *)
(* the rounding of single float operations is not modelled.  The one float *)
(* value that is not a number, NaN, is the value NaN below.                *)
(***************************************************************************)
EXTENDS Integers, Sequences, FiniteSets, TLC

VARIABLES
    blocks,         \* Terrain::blocks, [column -> [row -> BOOLEAN]] as a function on Cells
    worms,          \* std::vector<Worm> worms
    projectiles,    \* std::vector<Projectile> projectiles
    explosions,     \* std::vector<Explosion> explosions
    animationStep,  \* int animationStep
    currentWorm,    \* int currentWorm (0-based, as in the code)
    firing,         \* bool firing
    pc,             \* position of the main loop inside one iteration
    it,             \* position of the loop that is running (1-based index into the vector)
    last,           \* history: what the last step of the loop did
    call,           \* history: the arguments and results of the last call made directly
    ents            \* the entities of the ECS variant (bagel::World)

vars == <<blocks, worms, projectiles, explosions, animationStep, currentWorm,
          firing, pc, it, last, call, ents>>

-----------------------------------------------------------------------------
(* Program constants (src/main.cpp:8-15 and the literals of main).         *)

FP == 100

TERRAIN_SIZE == 10
WORM_SIZE == 30
PROJECTILE_SIZE == 8
EXPLOSION_MAX_SIZE == 80
GRAVITY == 20
WIND == 3
BASE_DAMAGE == 30
KNOCKBACK == 500
UPWARD_BOOST == 200
JUMP_SPEED == 600
MOVE_STEP == 200
LIFT_STEP == 100
MOVE_PERIOD == 10
EXPLOSION_DURATION == 30
STARTING_HEALTH == 100

(* Bounds of the model.  main.cpp runs an 800 x 600 world with four worms  *)
(* for as long as the window is open, and its script fires every 60 frames *)
(* and switches the worm every 180; the model runs the same code in a      *)
(* smaller world with three worms, for MaxTick frames, and with shorter    *)
(* periods of firing and switching.                                        *)

SCREEN_WIDTH == 400
SCREEN_HEIGHT == 300
FIRE_PERIOD == 6
TURN_PERIOD == 18
MaxTick == 45
MaxCalls == 2
MaxEntities == 3

-----------------------------------------------------------------------------
(* Float and int helpers.                                                  *)

NaN == -2000000000

IsNaN(f) == f = NaN

FAdd(a, b) == IF IsNaN(a) \/ IsNaN(b) THEN NaN ELSE a + b

Max(a, b) == IF a >= b THEN a ELSE b

Min(a, b) == IF a <= b THEN a ELSE b

\* C++ integer division truncates toward zero.
TruncDiv(a, b) == IF a >= 0 THEN a \div b ELSE -((-a) \div b)

\* static_cast<int>(f) of a float that is a number: truncation toward zero.
CastInt(f) == TruncDiv(f, FP)

\* int -> float
ToFloat(i) == i * FP

-----------------------------------------------------------------------------
(* Terrain (src/main.cpp:91-176).                                          *)

Columns == SCREEN_WIDTH \div TERRAIN_SIZE

Rows == SCREEN_HEIGHT \div TERRAIN_SIZE

Cells == (0 .. Columns - 1) \X (0 .. Rows - 1)

\* static_cast<int>(sin(x * 0.1) * 100) + static_cast<int>(sin(x * 0.05) * 50)
\* for x = 0 .. 79, the columns of the 800 pixel wide world.
HillTable ==
    << 0, 11, 23, 36, 47, 59, 70, 81, 90, 99, 107, 115, 121, 126, 130, 133,
       134, 136, 136, 134, 132, 129, 124, 119, 113, 106, 99, 90, 82, 72, 63,
       53, 44, 34, 24, 14, 4, -4, -14, -22, -30, -37, -44, -50, -55, -59,
       -62, -64, -66, -67, -66, -65, -63, -60, -56, -51, -47, -41, -35, -28,
       -20, -14, -6, 1, 9, 16, 24, 30, 37, 42, 48, 53, 57, 61, 63, 65, 66,
       66, 65, 63 >>

hillHeight(x) == SCREEN_HEIGHT \div 2 + HillTable[x + 1]

\* Terrain::Terrain: every cell of a column from row hillHeight / TERRAIN_SIZE
\* down is occupied.  The row is converted to size_t, so a negative one
\* starts beyond every row.
TerrainInit ==
    [c \in Cells |->
        /\ hillHeight(c[1]) >= 0
        /\ c[2] >= TruncDiv(hillHeight(c[1]), TERRAIN_SIZE)]

\* A start column that is not clamped to the grid.
destroyStartXUnclamped(centerX, radius) == TruncDiv(centerX - radius, TERRAIN_SIZE)

destroyStartX(centerX, radius) == Max(0, TruncDiv(centerX - radius, TERRAIN_SIZE))

\* An end column that stops one column early.
destroyEndXShort(centerX, radius) ==
    Min(Columns - 1, TruncDiv(centerX + radius, TERRAIN_SIZE) - 1)

destroyEndX(centerX, radius) == Min(Columns - 1, TruncDiv(centerX + radius, TERRAIN_SIZE))

destroyStartY(centerY, radius) == Max(0, TruncDiv(centerY - radius, TERRAIN_SIZE))

destroyEndY(centerY, radius) == Min(Rows - 1, TruncDiv(centerY + radius, TERRAIN_SIZE))

\* The cells the two loops of destroy visit.
destroyScan(centerX, centerY, radius) ==
    (destroyStartX(centerX, radius) .. destroyEndX(centerX, radius))
        \X (destroyStartY(centerY, radius) .. destroyEndY(centerY, radius))

\* sqrt(dx * dx + dy * dy) < radius, for the integers dx, dy and radius.
destroyHits(c, centerX, centerY, radius) ==
    LET dx == (c[1] * TERRAIN_SIZE + TERRAIN_SIZE \div 2) - centerX
        dy == (c[2] * TERRAIN_SIZE + TERRAIN_SIZE \div 2) - centerY
    IN  radius > 0 /\ dx * dx + dy * dy < radius * radius

\* A write that flips the cell.
destroyWriteToggle(old) == ~old

\* What destroy writes into a visited cell that it hits.
destroyWrite(old) == FALSE

\* A destroy that assigns the outcome of the test to every visited cell.
destroyAssign(b, centerX, centerY, radius) ==
    LET scan == destroyScan(centerX, centerY, radius)
    IN  [c \in Cells |->
            IF c \in scan THEN ~destroyHits(c, centerX, centerY, radius) ELSE b[c]]

\* Terrain::destroy
destroy(b, centerX, centerY, radius) ==
    LET scan == destroyScan(centerX, centerY, radius)
    IN  [c \in Cells |->
            IF c \in scan /\ destroyHits(c, centerX, centerY, radius)
            THEN destroyWrite(b[c])
            ELSE b[c]]

\* SDL_FRect {x, y, w, h}
FRect(x, y, w, h) == [x |-> x, y |-> y, w |-> w, h |-> h]

RectHasNaN(r) == IsNaN(r.x) \/ IsNaN(r.y)

\* SDL_HasRectIntersectionFloat of SDL3: the rectangles are closed, two
\* rectangles that only share an edge or a corner intersect.
SDL_HasRectIntersectionFloat(A, B) ==
    /\ A.w >= 0 /\ A.h >= 0 /\ B.w >= 0 /\ B.h >= 0
    /\ Min(A.x + A.w, B.x + B.w) >= Max(A.x, B.x)
    /\ Min(A.y + A.h, B.y + B.h) >= Max(A.y, B.y)

terrainRect(c) ==
    FRect(ToFloat(c[1] * TERRAIN_SIZE), ToFloat(c[2] * TERRAIN_SIZE),
          ToFloat(TERRAIN_SIZE), ToFloat(TERRAIN_SIZE))

collisionStartX(rect) == Max(0, TruncDiv(CastInt(rect.x), TERRAIN_SIZE))

collisionEndX(rect) == Min(Columns - 1, TruncDiv(CastInt(rect.x + rect.w), TERRAIN_SIZE))

collisionStartY(rect) == Max(0, TruncDiv(CastInt(rect.y), TERRAIN_SIZE))

collisionEndY(rect) == Min(Rows - 1, TruncDiv(CastInt(rect.y + rect.h), TERRAIN_SIZE))

\* The cells the two loops of checkCollision visit (all of them, when no
\* cell makes it return early).
collisionScan(rect) ==
    (collisionStartX(rect) .. collisionEndX(rect))
        \X (collisionStartY(rect) .. collisionEndY(rect))

\* Terrain::checkCollision of a rectangle whose coordinates are numbers
checkCollision(b, rect) ==
    \E c \in collisionScan(rect) :
        b[c] /\ SDL_HasRectIntersectionFloat(rect, terrainRect(c))

\* Terrain::checkCollision of a rectangle whose y is NaN (x never is).
\* static_cast<int>(NaN) is undefined: the builds in use give INT_MIN, with
\* which no row is visited, or 0, with which row 0 is visited and the
\* intersection test, all of whose comparisons with NaN are false, answers
\* true for an occupied cell.
checkCollisionNaN(b, rect) ==
    {FALSE} \cup
    {TRUE : c \in {d \in (collisionStartX(rect) .. collisionEndX(rect)) \X {0} : b[d]}}

\* The results checkCollision can give.
checkCollisionOutcomes(b, rect) ==
    IF RectHasNaN(rect) THEN checkCollisionNaN(b, rect)
    ELSE {checkCollision(b, rect)}

-----------------------------------------------------------------------------
(* Game objects (src/main.cpp:18-89).  updateRect copies x and y into the  *)
(* rectangle after every change of a position that is followed by a use    *)
(* of the rectangle, so the rectangle of a worm or projectile is a         *)
(* function of its position.                                               *)

\* Worm::Worm.  vyG counts the additions of GRAVITY held in vy since vy was
\* last assigned: GRAVITY is the float 0.2f = 0.20000000298..., not 1/5, so
\* a vy that holds additions of it is not 0 even when its hundredths are.
Worm(posX, posY) ==
    [x |-> ToFloat(posX), y |-> ToFloat(posY), vx |-> 0, vy |-> 0, vyG |-> 0,
     health |-> STARTING_HEALTH, isActive |-> FALSE, aimAngle |-> 0]

wormRect(w) == FRect(w.x, w.y, ToFloat(WORM_SIZE), ToFloat(WORM_SIZE))

\* A test that takes GRAVITY for 1/5: a vy whose hundredths are 0 is zero.
vyIsZeroRounded(w) == w.vy = 0

\* the test vy == 0 of Worm::jump
vyIsZero(w) == w.vy = 0 /\ w.vyG = 0

\* Worm::move
move(w, dx) == [w EXCEPT !.x = w.x + dx]

\* Worm::jump
jump(w) == IF vyIsZero(w) THEN [w EXCEPT !.vy = -JUMP_SPEED, !.vyG = 0] ELSE w

\* Projectile::Projectile
Projectile(posX, posY, velX, velY) == [x |-> posX, y |-> posY, vx |-> velX, vy |-> velY]

projectileRect(p) == FRect(p.x, p.y, ToFloat(PROJECTILE_SIZE), ToFloat(PROJECTILE_SIZE))

\* Explosion::Explosion
Explosion(posX, posY, radius) ==
    [x |-> posX, y |-> posY, maxRadius |-> radius,
     duration |-> EXPLOSION_DURATION, currentFrame |-> 0]

\* Explosion::update: the explosion after the call; the call returns
\* currentFrame < duration of it.
explosionUpdate(e) == [e EXCEPT !.currentFrame = e.currentFrame + 1]

\* A test that keeps a record for one frame more.
explosionAliveInclusive(e) == e.currentFrame <= e.duration

explosionAlive(e) == e.currentFrame < e.duration

\* The loop over the explosions: every record is updated, and erased when
\* its update returns false; the others keep their order.
updateExplosions(es) ==
    SelectSeq([i \in 1 .. Len(es) |-> explosionUpdate(es[i])], explosionAlive)

\* The aim angles the model draws for rand() % 628, in hundredths of a
\* radian, and cos(angle) * 8 and sin(angle) * 8 of each in hundredths.
AimAngles == {0, 157, 275, 314}

projectileVelocity(angle) ==
    CASE angle = 0   -> <<800, 0>>
      [] angle = 79  -> <<563, 568>>
      [] angle = 157 -> <<1, 800>>
      [] angle = 275 -> <<-739, 305>>
      [] angle = 314 -> <<-800, 1>>
      [] angle = 471 -> <<-2, -800>>

\* The positions main gives the worms ((100,100), (300,100), (500,100),
\* (700,100) in the 800 x 600 world), for the world of the model.
WormStart == << <<220, 215>>, <<0, 85>>, <<360, 85>> >>

NumWorms == Len(WormStart)

RemoveAt(s, i) == [j \in 1 .. Len(s) - 1 |-> IF j < i THEN s[j] ELSE s[j + 1]]

\* A detonation that leaves the projectile in the vector.
eraseNothing(ps, i) == ps

\* it = projectiles.erase(it): the vector after it; the iterator then stands
\* at the element that followed.
erase(ps, i) == RemoveAt(ps, i)

-----------------------------------------------------------------------------
(* The detonation of a projectile at (px, py) (src/main.cpp:316-348).      *)

FSub(a, b) == IF IsNaN(a) \/ IsNaN(b) THEN NaN ELSE a - b

RECURSIVE IsqrtFrom(_, _, _)
\* the largest k in lo .. hi with k * k <= n
IsqrtFrom(n, lo, hi) ==
    IF lo >= hi THEN lo
    ELSE LET mid == (lo + hi + 1) \div 2
         IN  IF mid * mid <= n THEN IsqrtFrom(n, mid, hi) ELSE IsqrtFrom(n, lo, mid - 1)

\* The radius within which a detonation damages and pushes a worm.
damageRadius == EXPLOSION_MAX_SIZE

\* The radius of the explosion record and of the hole in the terrain.
blastRadius == EXPLOSION_MAX_SIZE \div 2

\* A test that also takes a worm at exactly the radius.
withinDamageInclusive(dx, dy) ==
    /\ ~IsNaN(dx) /\ ~IsNaN(dy)
    /\ dx >= -ToFloat(damageRadius) /\ dx <= ToFloat(damageRadius)
    /\ dy >= -ToFloat(damageRadius) /\ dy <= ToFloat(damageRadius)
    /\ dx * dx + dy * dy <= ToFloat(damageRadius) * ToFloat(damageRadius)

\* distance < EXPLOSION_MAX_SIZE for distance = sqrt(dx * dx + dy * dy);
\* false when a coordinate is NaN.
withinDamage(dx, dy) ==
    /\ ~IsNaN(dx) /\ ~IsNaN(dy)
    /\ dx > -ToFloat(damageRadius) /\ dx < ToFloat(damageRadius)
    /\ dy > -ToFloat(damageRadius) /\ dy < ToFloat(damageRadius)
    /\ dx * dx + dy * dy < ToFloat(damageRadius) * ToFloat(damageRadius)

\* sqrt(dx * dx + dy * dy), to the hundredth below
distanceOf(dx, dy) == IsqrtFrom(dx * dx + dy * dy, 0, ToFloat(damageRadius))

\* A damage that does not fall off with the distance.
damageOfFlat(dx, dy) == BASE_DAMAGE

\* static_cast<int>(30 * (1.0f - distance / EXPLOSION_MAX_SIZE)), exactly:
\* the largest integer k with k <= 30 * (1 - distance / R), that is with
\* (30 * distance)^2 <= (R * (30 - k))^2; both sides are divided by 100.
damageOf(dx, dy) ==
    LET d2 == dx * dx + dy * dy
        R  == ToFloat(damageRadius) \div 10
        B  == BASE_DAMAGE \div 10
        Ks == {k \in 0 .. BASE_DAMAGE :
                  B * B * d2 <= (R * (BASE_DAMAGE - k)) * (R * (BASE_DAMAGE - k))}
    IN  CHOOSE k \in Ks : \A j \in Ks : j <= k

\* A knockback that does not fall off with the distance.
knockbackOfFlat(distance) == KNOCKBACK

\* 5.0f * (1.0f - distance / EXPLOSION_MAX_SIZE)
knockbackOf(distance) ==
    (KNOCKBACK * (ToFloat(damageRadius) - distance)) \div ToFloat(damageRadius)

\* (d / distance) * knockback; 0.0f / 0.0f is NaN
pushOf(d, distance, knockback) ==
    IF distance = 0 THEN NaN ELSE TruncDiv(d * knockback, distance)

\* A loop body that stops the health at 0.
hitWormClamped(w, px, py) ==
    LET dx == FSub(w.x + ToFloat(WORM_SIZE \div 2), px)
        dy == FSub(FAdd(w.y, ToFloat(WORM_SIZE \div 2)), py)
    IN  IF ~withinDamage(dx, dy) THEN w
        ELSE LET distance  == distanceOf(dx, dy)
                 knockback == knockbackOf(distance)
             IN  [w EXCEPT
                    !.health = Max(0, w.health - damageOf(dx, dy)),
                    !.vx = FAdd(w.vx, pushOf(dx, distance, knockback)),
                    !.vy = FAdd(FAdd(w.vy, pushOf(dy, distance, knockback)), -UPWARD_BOOST)]

\* A loop body that also moves the worm by the push.
hitWormDisplacing(w, px, py) ==
    LET dx == FSub(w.x + ToFloat(WORM_SIZE \div 2), px)
        dy == FSub(FAdd(w.y, ToFloat(WORM_SIZE \div 2)), py)
    IN  IF ~withinDamage(dx, dy) THEN w
        ELSE LET distance  == distanceOf(dx, dy)
                 knockback == knockbackOf(distance)
             IN  [w EXCEPT
                    !.health = w.health - damageOf(dx, dy),
                    !.x = FAdd(w.x, pushOf(dx, distance, knockback)),
                    !.vx = FAdd(w.vx, pushOf(dx, distance, knockback)),
                    !.vy = FAdd(FAdd(w.vy, pushOf(dy, distance, knockback)), -UPWARD_BOOST)]

\* The body of the loop over the worms: one worm after the detonation.
hitWorm(w, px, py) ==
    LET dx == FSub(w.x + ToFloat(WORM_SIZE \div 2), px)
        dy == FSub(FAdd(w.y, ToFloat(WORM_SIZE \div 2)), py)
    IN  IF ~withinDamage(dx, dy) THEN w
        ELSE LET distance  == distanceOf(dx, dy)
                 knockback == knockbackOf(distance)
             IN  [w EXCEPT
                    !.health = w.health - damageOf(dx, dy),
                    !.vx = FAdd(w.vx, pushOf(dx, distance, knockback)),
                    !.vy = FAdd(FAdd(w.vy, pushOf(dy, distance, knockback)), -UPWARD_BOOST)]

hitWorms(ws, px, py) == [i \in 1 .. Len(ws) |-> hitWorm(ws[i], px, py)]

-----------------------------------------------------------------------------
(* The main loop (src/main.cpp:195-433).  One iteration runs the script    *)
(* step, the loop over the worms, the loop over the projectiles and the    *)
(* loop over the explosions; rendering reads the state and changes none.   *)

\* The worm collides after `passes` passes of the loop that lifts it from y.
collidesAfter(b, w, y, passes) ==
    checkCollision(b, wormRect([w EXCEPT !.y = y - passes * LIFT_STEP]))

\* while (terrain.checkCollision(worm.rect)) { worm.y -= 1.0f; worm.updateRect(); }
\* The loop runs until the first pass count at which the test fails; the
\* counts are searched up to the one that puts the worm above the grid, and
\* a loop that had not ended by then has no value here.
liftY(b, w, y) ==
    LET most   == IF y > 0 THEN y \div LIFT_STEP + WORM_SIZE + 1 ELSE 0
        passes == CHOOSE k \in 0 .. most :
                      /\ ~collidesAfter(b, w, y, k)
                      /\ \A j \in 0 .. k - 1 : collidesAfter(b, w, y, j)
    IN  y - passes * LIFT_STEP

\* An integration that moves the worm by the velocity of before.
integrateWormExplicit(w) ==
    [w EXCEPT !.vy = FAdd(w.vy, GRAVITY), !.vyG = w.vyG + 1, !.y = FAdd(w.y, w.vy)]

\* worm.vy += GRAVITY; worm.y += worm.vy; worm.updateRect();
integrateWorm(w) ==
    LET vy == FAdd(w.vy, GRAVITY)
    IN  [w EXCEPT !.vy = vy, !.vyG = w.vyG + 1, !.y = FAdd(w.y, vy)]

\* A resolution that lifts the worm once, however deep it is.
resolveWormOneLift(b, w, hit) ==
    IF hit THEN [w EXCEPT !.y = w.y - LIFT_STEP, !.vy = 0, !.vyG = 0] ELSE w

\* A resolution that leaves the worm its velocity.
resolveWormKeepsSpeed(b, w, hit) ==
    IF hit THEN [w EXCEPT !.y = liftY(b, w, w.y)] ELSE w

\* the worm after the collision check that answered hit
resolveWorm(b, w, hit) ==
    IF hit THEN [w EXCEPT !.y = liftY(b, w, w.y), !.vy = 0, !.vyG = 0] ELSE w

\* switch (randomMove)
randomMoveOf(w, randomMove) ==
    CASE randomMove = 0 -> move(w, -MOVE_STEP)
      [] randomMove = 1 -> move(w, MOVE_STEP)
      [] randomMove = 2 -> jump(w)

\* The values of rand() % 3.
RandomMoves == 0 .. 2

\* A test that lets every worm move.
moveDueAnyWorm(w, step) == step % MOVE_PERIOD = 0

\* worm.isActive && animationStep % 10 == 0
moveDue(w, step) == w.isActive /\ step % MOVE_PERIOD = 0

\* projectile.vy += GRAVITY; projectile.vx += WIND; x += vx; y += vy; updateRect()
integrateProjectile(p) ==
    LET vx == p.vx + WIND
        vy == FAdd(p.vy, GRAVITY)
    IN  [x |-> p.x + vx, y |-> FAdd(p.y, vy), vx |-> vx, vy |-> vy]

\* A bounds test that forgets the right edge of the world.
outOfBoundsNoRight(p) ==
    \/ p.x < 0
    \/ (~IsNaN(p.y) /\ p.y < 0)
    \/ (~IsNaN(p.y) /\ p.y > ToFloat(SCREEN_HEIGHT))

\* projectile.x < 0 || projectile.x > SCREEN_WIDTH || projectile.y < 0 || ...
\* (a comparison with NaN is false)
outOfBounds(p) ==
    \/ p.x < 0
    \/ p.x > ToFloat(SCREEN_WIDTH)
    \/ (~IsNaN(p.y) /\ p.y < 0)
    \/ (~IsNaN(p.y) /\ p.y > ToFloat(SCREEN_HEIGHT))

\* static_cast<int>(projectile.y) for the call of destroy; a projectile whose
\* y is NaN is only found colliding by a build that converts NaN to 0.
centerOf(f) == IF IsNaN(f) THEN 0 ELSE CastInt(f)

\* the loop that ends: the position after it
afterProjectile(ps, i) == IF i > Len(ps) THEN "explosions" ELSE "projectiles"

Init ==
    /\ blocks = TerrainInit
    /\ worms = [i \in 1 .. NumWorms |->
                   [Worm(WormStart[i][1], WormStart[i][2]) EXCEPT !.isActive = (i = 1)]]
    /\ projectiles = << >>
    /\ explosions = << >>
    /\ animationStep = 0
    /\ currentWorm = 0
    /\ firing = FALSE
    /\ pc = "script"
    /\ it = 0
    /\ last = "init"
    /\ call = [op |-> "none"]
    /\ ents = << >>

\* SDL_EVENT_QUIT ends the loop between two iterations.
Quit ==
    /\ pc = "script"
    /\ pc' = "done"
    /\ last' = "quit"
    /\ UNCHANGED <<blocks, worms, projectiles, explosions, animationStep,
                   currentWorm, firing, it, call, ents>>

\* A test that does not look at the flag.
fireDueEveryPeriod(step, hasFired) == step % FIRE_PERIOD = 0

\* animationStep % 60 == 0 && !firing
fireDue(step, hasFired) == step % FIRE_PERIOD = 0 /\ ~hasFired

\* A test that is true in one frame only.
turnDueOnce(step) == step = TURN_PERIOD

\* animationStep % 180 == 0
turnDue(step) == step % TURN_PERIOD = 0

\* A rotation that leaves out the last worm.
nextWormShort(current, count) == (current + 1) % (count - 1)

\* (currentWorm + 1) % worms.size()
nextWorm(current, count) == (current + 1) % count

\* A switch that does not clear the flag of the worm whose turn ends.
switchWormsKeepOld(ws, next, angle) ==
    [i \in 1 .. Len(ws) |->
        IF i = next + 1
        THEN [ws[i] EXCEPT !.isActive = TRUE, !.aimAngle = angle]
        ELSE ws[i]]

\* The worms after the switch to worm next (0-based), which aims at angle.
switchWorms(ws, next, angle) ==
    [i \in 1 .. Len(ws) |->
        IF i = next + 1
        THEN [ws[i] EXCEPT !.isActive = TRUE, !.aimAngle = angle]
        ELSE [ws[i] EXCEPT !.isActive = FALSE]]

\* What the script of a frame writes to the counter, the flag firing and
\* the active worm, when animationStep++ gives step.
Schedule(step) ==
    /\ animationStep' = step
    /\ IF turnDue(step)
       THEN /\ currentWorm' = nextWorm(currentWorm, Len(worms))
            /\ firing' = FALSE
            /\ \E angle \in AimAngles :
                  worms' = switchWorms(worms, nextWorm(currentWorm, Len(worms)), angle)
       ELSE /\ firing' = (firing \/ fireDue(step, firing))
            /\ UNCHANGED <<currentWorm, worms>>

\* animationStep++, the shot every FIRE_PERIOD frames and the switch of the
\* worm every TURN_PERIOD frames.
Script ==
    /\ pc = "script"
    /\ animationStep < MaxTick
    /\ LET step   == animationStep + 1
           active == worms[currentWorm + 1]
           v      == projectileVelocity(active.aimAngle)
       IN  /\ Schedule(step)
           /\ projectiles' =
                 IF fireDue(step, firing)
                 THEN Append(projectiles,
                             Projectile(active.x + ToFloat(WORM_SIZE \div 2),
                                        FAdd(active.y, ToFloat(WORM_SIZE \div 2)),
                                        v[1], v[2]))
                 ELSE projectiles
    /\ pc' = "worms"
    /\ it' = 1
    /\ last' = "script"
    /\ UNCHANGED <<blocks, explosions, call, ents>>

\* One pass of the loop over the worms.
UpdateWorm ==
    /\ pc = "worms"
    /\ LET w == integrateWorm(worms[it])
       IN  \E hit \in checkCollisionOutcomes(blocks, wormRect(w)) :
             IF hit /\ IsNaN(w.y)
             THEN \* the loop that lifts the worm never ends: NaN - 1 is NaN
                  /\ pc' = "hang"
                  /\ last' = "hang"
                  /\ UNCHANGED <<worms, it>>
             ELSE LET r == resolveWorm(blocks, w, hit)
                  IN  /\ IF moveDue(r, animationStep)
                         THEN \E randomMove \in RandomMoves :
                                 worms' = [worms EXCEPT ![it] = randomMoveOf(r, randomMove)]
                         ELSE worms' = [worms EXCEPT ![it] = r]
                      /\ IF it < Len(worms)
                         THEN pc' = "worms" /\ it' = it + 1
                         ELSE pc' = afterProjectile(projectiles, 1) /\ it' = 1
                      /\ last' = IF hit THEN "landed" ELSE "worm"
    /\ UNCHANGED <<blocks, projectiles, explosions, animationStep, currentWorm,
                   firing, call, ents>>

\* One pass of the loop over the projectiles: the projectile left the world.
ProjectileOutOfBounds ==
    /\ pc = "projectiles"
    /\ LET p == integrateProjectile(projectiles[it])
       IN  /\ outOfBounds(p)
           /\ projectiles' = erase(projectiles, it)
           /\ pc' = afterProjectile(projectiles', it)
           /\ call' = [op |-> "erase", projectile |-> p]
    /\ last' = "outOfBounds"
    /\ UNCHANGED <<blocks, worms, explosions, animationStep, currentWorm,
                   firing, it, ents>>

\* One pass of the loop over the projectiles: the projectile hit the terrain.
ProjectileImpact ==
    /\ pc = "projectiles"
    /\ LET p == integrateProjectile(projectiles[it])
       IN  /\ ~outOfBounds(p)
           /\ TRUE \in checkCollisionOutcomes(blocks, projectileRect(p))
           /\ explosions' = Append(explosions, Explosion(p.x, p.y, blastRadius))
           /\ blocks' = destroy(blocks, CastInt(p.x), centerOf(p.y), blastRadius)
           /\ worms' = hitWorms(worms, p.x, p.y)
           /\ projectiles' = erase(projectiles, it)
           /\ pc' = afterProjectile(projectiles', it)
    /\ last' = "impact"
    /\ UNCHANGED <<animationStep, currentWorm, firing, it, call, ents>>

\* One pass of the loop over the projectiles: the projectile flies on.
ProjectileFly ==
    /\ pc = "projectiles"
    /\ LET p == integrateProjectile(projectiles[it])
       IN  /\ ~outOfBounds(p)
           /\ FALSE \in checkCollisionOutcomes(blocks, projectileRect(p))
           /\ projectiles' = [projectiles EXCEPT ![it] = p]
           /\ pc' = afterProjectile(projectiles, it + 1)
    /\ it' = it + 1
    /\ last' = "fly"
    /\ UNCHANGED <<blocks, worms, explosions, animationStep, currentWorm,
                   firing, call, ents>>

\* A loop over the explosions in which the oldest record hits the worms
\* again in every frame of its life.
UpdateExplosionsBurning ==
    /\ pc = "explosions"
    /\ explosions' = updateExplosions(explosions)
    /\ worms' = IF explosions = << >> THEN worms
                ELSE hitWorms(worms, explosions[1].x, explosions[1].y)
    /\ pc' = "script"
    /\ it' = 0
    /\ last' = "explosions"
    /\ call' = [op |-> "none"]
    /\ UNCHANGED <<blocks, projectiles, animationStep, currentWorm, firing, ents>>

\* The loop over the explosions; then the frame is rendered.
UpdateExplosions ==
    /\ pc = "explosions"
    /\ explosions' = updateExplosions(explosions)
    /\ pc' = "script"
    /\ it' = 0
    /\ last' = "explosions"
    /\ call' = [op |-> "none"]
    /\ UNCHANGED <<blocks, worms, projectiles, animationStep, currentWorm,
                   firing, ents>>

Next ==
    \/ Quit
    \/ Script
    \/ UpdateWorm
    \/ ProjectileOutOfBounds
    \/ ProjectileImpact
    \/ ProjectileFly
    \/ UpdateExplosions

Spec == Init /\ [][Next]_vars

-----------------------------------------------------------------------------
(* Terrain::destroy and Terrain::checkCollision called directly, with      *)
(* arguments inside, across and outside the world, on the terrain of the   *)
(* constructor and on what earlier calls left of it.                       *)

DestroyCenterXs == {-15, 5, 207, 415}

DestroyCenterYs == {-10, 155, 285}

DestroyRadii == {0, 10, 40}

CollisionXs == {-3000, -800, 0, 1200, 2000, 19650, 39200, 40000, 41000}

CollisionYs == {-4000, 14200, 15000, 15999, 27350, 29500, 31000}

CollisionSizes == {PROJECTILE_SIZE, WORM_SIZE}

InitTerrain ==
    /\ blocks = TerrainInit
    /\ worms = << >>
    /\ projectiles = << >>
    /\ explosions = << >>
    /\ animationStep = 0
    /\ currentWorm = 0
    /\ firing = FALSE
    /\ pc = "terrain"
    /\ it = 0
    /\ last = "init"
    /\ call = [op |-> "none"]
    /\ ents = << >>

CallDestroy ==
    /\ pc = "terrain"
    /\ it < MaxCalls
    /\ \E centerX \in DestroyCenterXs, centerY \in DestroyCenterYs, radius \in DestroyRadii :
          /\ blocks' = destroy(blocks, centerX, centerY, radius)
          /\ call' = [op |-> "destroy", centerX |-> centerX, centerY |-> centerY,
                      radius |-> radius, before |-> blocks,
                      scan |-> destroyScan(centerX, centerY, radius)]
    /\ it' = it + 1
    /\ last' = "destroy"
    /\ UNCHANGED <<worms, projectiles, explosions, animationStep, currentWorm,
                   firing, pc, ents>>

CallCheckCollision ==
    /\ pc = "terrain"
    /\ it < MaxCalls
    /\ \E x \in CollisionXs, y \in CollisionYs, size \in CollisionSizes :
          LET rect == FRect(x, y, ToFloat(size), ToFloat(size))
          IN  call' = [op |-> "checkCollision", rect |-> rect,
                       result |-> checkCollision(blocks, rect),
                       scan |-> collisionScan(rect)]
    /\ it' = it + 1
    /\ last' = "checkCollision"
    /\ UNCHANGED <<blocks, worms, projectiles, explosions, animationStep,
                   currentWorm, firing, pc, ents>>

NextTerrain ==
    \/ CallDestroy
    \/ CallCheckCollision

SpecTerrain == InitTerrain /\ [][NextTerrain]_vars

-----------------------------------------------------------------------------
(* The loop over the worms of a detonation (src/main.cpp:331-346) applied  *)
(* directly, for detonations at chosen distances from the first worm.      *)

BlastXs == {21100, 23200, 23500, 25500, 27500, 31500, 33500}

BlastYs == {23000, 25000, 10000}

\* The worms of the calls: those of the main loop and one more that stands
\* near the first, so that one detonation can reach two worms.
BlastWormStart == Append(WormStart, <<270, 215>>)

InitBlast ==
    /\ blocks = TerrainInit
    /\ worms = [i \in 1 .. Len(BlastWormStart) |->
                   [Worm(BlastWormStart[i][1], BlastWormStart[i][2])
                       EXCEPT !.isActive = (i = 1)]]
    /\ projectiles = << >>
    /\ explosions = << >>
    /\ animationStep = 0
    /\ currentWorm = 0
    /\ firing = FALSE
    /\ pc = "blast"
    /\ it = 0
    /\ last = "init"
    /\ call = [op |-> "none"]
    /\ ents = << >>

CallHitWorms ==
    /\ pc = "blast"
    /\ it < MaxCalls
    /\ \E px \in BlastXs, py \in BlastYs :
          /\ worms' = hitWorms(worms, px, py)
          /\ call' = [op |-> "hitWorms", px |-> px, py |-> py, before |-> worms]
    /\ it' = it + 1
    /\ last' = "hitWorms"
    /\ UNCHANGED <<blocks, projectiles, explosions, animationStep, currentWorm,
                   firing, pc, ents>>

NextBlast == CallHitWorms

SpecBlast == InitBlast /\ [][NextBlast]_vars

-----------------------------------------------------------------------------
(* The projectile entities of the ECS variant (src/unnamed/part_001 with   *)
(* the components of src/unnamed/part_003).                                *)

TIME_TO_LIVE == 300
BAZOOKA_PROJECTILE_WEIGHT == 50
GRENADE_PROJECTILE_WEIGHT == 70
SHOTGUN_PROJECTILE_WEIGHT == 20

WeaponKinds == {"BAZOOKA", "GRENADE", "SHOTGUN"}

\* ProjectileData::ProjectileData
ProjectileData(k) ==
    [kind |-> k, timeToLive |-> IF k = "GRENADE" THEN TIME_TO_LIVE ELSE -FP]

\* createProjectile: the components of the entity it creates
createProjectile(x, y, velX, velY, weaponKind) ==
    [position |-> [x |-> x, y |-> y],
     physics  |-> [accelX |-> 0, accelY |-> 0, velX |-> velX, velY |-> velY,
                   weight |-> CASE weaponKind = "BAZOOKA" -> BAZOOKA_PROJECTILE_WEIGHT
                                [] weaponKind = "GRENADE" -> GRENADE_PROJECTILE_WEIGHT
                                [] weaponKind = "SHOTGUN" -> SHOTGUN_PROJECTILE_WEIGHT,
                   isAffectedByGravity |-> TRUE],
     projectileData |-> ProjectileData(weaponKind)]

\* ProjectileSystem::update: the loop over the entities that hold a
\* ProjectileData and a Position has an empty body.
projectileSystemUpdate(es, deltaTime) == es

\* PhysicsSystem::update: the loop over the entities that hold a Position
\* and a Physics has an empty body.
physicsSystemUpdate(es, deltaTime) == es

\* The values of deltaTime the systems are called with, in hundredths.
DeltaTimes == {FP, 2 * FP}

\* The x the entities are created at: two inside the world and one to the
\* left of it.
CreateXs == {-5000, 10000, 25000}

InitEcs ==
    /\ blocks = TerrainInit
    /\ worms = << >>
    /\ projectiles = << >>
    /\ explosions = << >>
    /\ animationStep = 0
    /\ currentWorm = 0
    /\ firing = FALSE
    /\ pc = "ecs"
    /\ it = 0
    /\ last = "init"
    /\ call = [op |-> "none"]
    /\ ents = << >>

EcsCreateProjectile ==
    /\ pc = "ecs"
    /\ Len(ents) < MaxEntities
    /\ \E x \in CreateXs, velX \in {-800, 800}, weaponKind \in WeaponKinds :
          ents' = Append(ents, createProjectile(x, 20000, velX, 0, weaponKind))
    /\ last' = "createProjectile"
    /\ call' = [op |-> "createProjectile"]
    /\ UNCHANGED <<blocks, worms, projectiles, explosions, animationStep,
                   currentWorm, firing, pc, it>>

EcsProjectileSystemUpdate ==
    /\ pc = "ecs"
    /\ it < MaxCalls
    /\ \E deltaTime \in {FP} :
          /\ ents' = projectileSystemUpdate(ents, deltaTime)
          /\ call' = [op |-> "ProjectileSystem::update", deltaTime |-> deltaTime]
    /\ it' = it + 1
    /\ last' = "projectileSystemUpdate"
    /\ UNCHANGED <<blocks, worms, projectiles, explosions, animationStep,
                   currentWorm, firing, pc>>

EcsPhysicsSystemUpdate ==
    /\ pc = "ecs"
    /\ it < MaxCalls
    /\ \E deltaTime \in DeltaTimes :
          /\ ents' = physicsSystemUpdate(ents, deltaTime)
          /\ call' = [op |-> "PhysicsSystem::update", deltaTime |-> deltaTime]
    /\ it' = it + 1
    /\ last' = "physicsSystemUpdate"
    /\ UNCHANGED <<blocks, worms, projectiles, explosions, animationStep,
                   currentWorm, firing, pc>>

NextEcs ==
    \/ EcsCreateProjectile
    \/ EcsProjectileSystemUpdate
    \/ EcsPhysicsSystemUpdate

SpecEcs == InitEcs /\ [][NextEcs]_vars

-----------------------------------------------------------------------------
(* The body of the loop over the worms (src/main.cpp:259-275) applied      *)
(* directly to a worm at a chosen place: above the terrain, in its         *)
(* surface, and inside solid terrain.                                      *)

ContactXs == {0, 50, 100, 220, 300, 360}

ContactYs == {85, 120, 150, 200, 215, 240, 250, 260, 270}

\* The number of passes of the while loop that lifts worm w.
liftCount(b, w) == (w.y - liftY(b, w, w.y)) \div LIFT_STEP

InitContact ==
    /\ blocks = TerrainInit
    /\ worms = << >>
    /\ projectiles = << >>
    /\ explosions = << >>
    /\ animationStep = 0
    /\ currentWorm = 0
    /\ firing = FALSE
    /\ pc = "contact"
    /\ it = 0
    /\ last = "init"
    /\ call = [op |-> "none"]
    /\ ents = << >>

CallUpdateWorm ==
    /\ pc = "contact"
    /\ it < MaxCalls
    /\ \E posX \in ContactXs, posY \in ContactYs :
          LET before == Worm(posX, posY)
              w      == integrateWorm(before)
              hit    == checkCollision(blocks, wormRect(w))
          IN  /\ worms' = << resolveWorm(blocks, w, hit) >>
              /\ call' = [op |-> "updateWorm", before |-> before, hit |-> hit,
                          lifts |-> IF hit THEN liftCount(blocks, w) ELSE 0]
              /\ last' = IF hit THEN "landed" ELSE "worm"
    /\ it' = it + 1
    /\ UNCHANGED <<blocks, projectiles, explosions, animationStep, currentWorm,
                   firing, pc, ents>>

NextContact == CallUpdateWorm

SpecContact == InitContact /\ [][NextContact]_vars

-----------------------------------------------------------------------------
(* The script of the frames over a run without end: the counter, the flag  *)
(* firing and the active worm (src/main.cpp:226-256).  Nothing else in the *)
(* loop writes them, and the projectiles and the physics of the frames,    *)
(* which Spec runs, are left out here.  animationStep is an int: the       *)
(* model gives it the range -IntMax - 1 .. IntMax, and animationStep++ at  *)
(* IntMax, which is undefined, either wraps around or traps.               *)

IntMax == 63

\* The values animationStep++ can leave in animationStep.
incrementOutcomes(n) == IF n < IntMax THEN {n + 1} ELSE {-IntMax - 1}

InitTurns ==
    /\ blocks = TerrainInit
    /\ worms = [i \in 1 .. NumWorms |->
                   [Worm(WormStart[i][1], WormStart[i][2]) EXCEPT !.isActive = (i = 1)]]
    /\ projectiles = << >>
    /\ explosions = << >>
    /\ animationStep = 0
    /\ currentWorm = 0
    /\ firing = FALSE
    /\ pc = "turns"
    /\ it = 0
    /\ last = "init"
    /\ call = [op |-> "frame", sinceSwitch |-> 0, idle |-> [i \in 1 .. NumWorms |-> 0],
               fired |-> FALSE, shots |-> 0]
    /\ ents = << >>

\* The script of one frame; call counts the frames since the last switch
\* and, for every worm, the frames since it was last active, and it holds
\* whether the frame ran the fire step and how often the frames since the
\* last switch ran it.
TurnFrame ==
    /\ pc = "turns"
    /\ \E step \in incrementOutcomes(animationStep) :
          /\ Schedule(step)
          /\ call' = [op |-> "frame",
                      sinceSwitch |-> IF turnDue(step) THEN 0 ELSE call.sinceSwitch + 1,
                      idle |-> [i \in 1 .. NumWorms |->
                                   IF worms'[i].isActive THEN 0 ELSE call.idle[i] + 1],
                      fired |-> fireDue(step, firing),
                      shots |-> IF turnDue(step) THEN 0
                                ELSE IF fireDue(step, firing) THEN call.shots + 1
                                ELSE call.shots]
    /\ last' = "script"
    /\ UNCHANGED <<blocks, projectiles, explosions, pc, it, ents>>

\* animationStep++ at the largest int, in a build that traps the overflow.
TurnTrap ==
    /\ pc = "turns"
    /\ animationStep = IntMax
    /\ pc' = "trap"
    /\ last' = "trap"
    /\ UNCHANGED <<blocks, worms, projectiles, explosions, animationStep,
                   currentWorm, firing, it, call, ents>>

NextTurns ==
    \/ TurnFrame
    \/ TurnTrap

SpecTurns == InitTurns /\ [][NextTurns]_vars

\* The run in which frames keep happening for as long as the loop runs.
SpecTurnsFair == InitTurns /\ [][NextTurns]_vars /\ WF_vars(TurnFrame)

-----------------------------------------------------------------------------
(* The explosion records over a run without end: the record a detonation   *)
(* appends (src/main.cpp:317-321) and the loop over the explosions that    *)
(* ends every frame (src/main.cpp:355-361).  A frame can hold several      *)
(* detonations, all before its loop over the explosions.                   *)

DetonationXs == {10000, 25000}

InitRecords ==
    /\ blocks = TerrainInit
    /\ worms = << >>
    /\ projectiles = << >>
    /\ explosions = << >>
    /\ animationStep = 0
    /\ currentWorm = 0
    /\ firing = FALSE
    /\ pc = "records"
    /\ it = 0
    /\ last = "init"
    /\ call = [op |-> "none"]
    /\ ents = << >>

\* explosions.emplace_back(projectile.x, projectile.y, EXPLOSION_MAX_SIZE / 2)
RecordDetonation ==
    /\ pc = "records"
    /\ it < MaxCalls
    /\ \E px \in DetonationXs :
          explosions' = Append(explosions, Explosion(px, 20000, blastRadius))
    /\ it' = it + 1
    /\ last' = "impact"
    /\ call' = [op |-> "emplace_back"]
    /\ UNCHANGED <<blocks, worms, projectiles, animationStep, currentWorm,
                   firing, pc, ents>>

\* The loop over the explosions of one frame.
RecordsFrame ==
    /\ pc = "records"
    /\ explosions' = updateExplosions(explosions)
    /\ last' = "explosions"
    /\ call' = [op |-> "updateExplosions", before |-> explosions]
    /\ UNCHANGED <<blocks, worms, projectiles, animationStep, currentWorm,
                   firing, pc, it, ents>>

NextRecords ==
    \/ RecordDetonation
    \/ RecordsFrame

\* The run in which frames keep happening for as long as the loop runs.
SpecRecordsFair == InitRecords /\ [][NextRecords]_vars /\ WF_vars(RecordsFrame)

-----------------------------------------------------------------------------
(* The passes of the worm loop over a turn that is longer than a jump      *)
(* (src/main.cpp:259-291): one worm, active in every frame as a worm is    *)
(* for the 180 frames of its turn, with the scripted move of every         *)
(* MOVE_PERIOD-th frame.  A jump lasts 2 * JUMP_SPEED / GRAVITY = 60       *)
(* frames and is at its apex after 30; the model runs MaxJumpTick frames.  *)

MaxJumpTick == 55

InitJumps ==
    /\ blocks = TerrainInit
    /\ worms = << [Worm(WormStart[1][1], WormStart[1][2]) EXCEPT !.isActive = TRUE] >>
    /\ projectiles = << >>
    /\ explosions = << >>
    /\ animationStep = 0
    /\ currentWorm = 0
    /\ firing = FALSE
    /\ pc = "jumps"
    /\ it = 1
    /\ last = "init"
    /\ call = [op |-> "none"]
    /\ ents = << >>

\* animationStep++ and the pass of the worm; call holds the value drawn
\* for rand() % 3, or -1 in a frame without a scripted move.
JumpFrame ==
    /\ pc = "jumps"
    /\ animationStep < MaxJumpTick
    /\ animationStep' = animationStep + 1
    /\ LET w   == integrateWorm(worms[1])
           hit == checkCollision(blocks, wormRect(w))
           r   == resolveWorm(blocks, w, hit)
       IN  /\ IF moveDue(r, animationStep')
              THEN \E randomMove \in RandomMoves :
                      /\ worms' = << randomMoveOf(r, randomMove) >>
                      /\ call' = [op |-> "pass", randomMove |-> randomMove]
              ELSE /\ worms' = << r >>
                   /\ call' = [op |-> "pass", randomMove |-> -1]
           /\ last' = IF hit THEN "landed" ELSE "worm"
    /\ UNCHANGED <<blocks, projectiles, explosions, currentWorm, firing, pc, it, ents>>

NextJumps == JumpFrame

SpecJumps == InitJumps /\ [][NextJumps]_vars

-----------------------------------------------------------------------------
(* The health of the worms over a rotation of the turns: the script of the *)
(* frames (src/main.cpp:226-256) and, in any frame, the loop over the      *)
(* worms of a detonation (src/main.cpp:331-346) near the first worm.  The  *)
(* model runs one rotation and a turn more, with at most MaxDetonations    *)
(* detonations.                                                            *)

MaxDetonations == 5

\* The places of the detonations: 3 pixels and 28.28 pixels from the centre
\* of the first worm.
AttritionPlaces == {<<23200, 23000>>, <<25500, 25000>>}

InitAttrition ==
    /\ blocks = TerrainInit
    /\ worms = [i \in 1 .. NumWorms |->
                   [Worm(WormStart[i][1], WormStart[i][2]) EXCEPT !.isActive = (i = 1)]]
    /\ projectiles = << >>
    /\ explosions = << >>
    /\ animationStep = 0
    /\ currentWorm = 0
    /\ firing = FALSE
    /\ pc = "attrition"
    /\ it = 0
    /\ last = "init"
    /\ call = [op |-> "none"]
    /\ ents = << >>

\* The script of one frame.
AttritionFrame ==
    /\ pc = "attrition"
    /\ animationStep < (NumWorms + 1) * TURN_PERIOD
    /\ Schedule(animationStep + 1)
    /\ last' = "script"
    /\ call' = [op |-> "frame"]
    /\ UNCHANGED <<blocks, projectiles, explosions, pc, it, ents>>

\* The loop over the worms of a detonation.
AttritionDetonation ==
    /\ pc = "attrition"
    /\ it < MaxDetonations
    /\ \E place \in AttritionPlaces :
          /\ worms' = hitWorms(worms, place[1], place[2])
          /\ call' = [op |-> "hitWorms", px |-> place[1], py |-> place[2], before |-> worms]
    /\ it' = it + 1
    /\ last' = "impact"
    /\ UNCHANGED <<blocks, projectiles, explosions, animationStep, currentWorm,
                   firing, pc, ents>>

NextAttrition ==
    \/ AttritionFrame
    \/ AttritionDetonation

SpecAttrition == InitAttrition /\ [][NextAttrition]_vars

-----------------------------------------------------------------------------
(* Properties of the terrain.                                              *)

\* The square of the distance, in pixels, from the centre of cell c to the
\* point (centerX, centerY).
CentreDistance2(c, centerX, centerY) ==
    LET dx == c[1] * TERRAIN_SIZE + TERRAIN_SIZE \div 2 - centerX
        dy == c[2] * TERRAIN_SIZE + TERRAIN_SIZE \div 2 - centerY
    IN  dx * dx + dy * dy

\* The projectile the loop over the projectiles stands at, after its move.
Moved == integrateProjectile(projectiles[it])

\* C1: a terrain cell never goes from empty to occupied, and the grid changes
\* only in the step that detonates a projectile, where the change is the one
\* call of Terrain::destroy at the projectile's position.
C1_TerrainOnlyShrinks ==
    [][blocks' # blocks =>
          /\ \A c \in Cells : blocks'[c] => blocks[c]
          /\ pc = "projectiles"
          /\ last' = "impact"
          /\ blocks' = destroy(blocks, CastInt(Moved.x), CastInt(Moved.y), blastRadius)]_vars

\* A detonation has emptied a cell the constructor had filled.
C1_Witness == \E c \in Cells : TerrainInit[c] /\ ~blocks[c]

\* C2: after destroy(centerX, centerY, radius) every cell whose centre is
\* nearer to the centre than radius is empty and every cell whose centre is
\* farther than radius is as it was, also for centres outside the world.
C2_DestroyClearsDisc ==
    call.op = "destroy" =>
        \A c \in Cells :
            LET d2 == CentreDistance2(c, call.centerX, call.centerY)
                r2 == call.radius * call.radius
            IN  /\ d2 < r2 => ~blocks[c]
                /\ d2 > r2 => blocks[c] = call.before[c]

\* destroy was called with a centre left of the world and emptied cells.
C2_Witness ==
    /\ call.op = "destroy"
    /\ call.centerX < 0
    /\ blocks # call.before

\* C3: destroy is idempotent: the same call again leaves the grid as the
\* first call left it, and a call on an area that holds no occupied cell
\* changes nothing.
C3_DestroyIdempotent ==
    call.op = "destroy" =>
        /\ destroy(blocks, call.centerX, call.centerY, call.radius) = blocks
        /\ (\A c \in Cells :
               destroyHits(c, call.centerX, call.centerY, call.radius) => ~call.before[c])
           => blocks = call.before

\* destroy was called on an area an earlier call had emptied.
C3_Witness ==
    /\ call.op = "destroy"
    /\ blocks = call.before
    /\ \E c \in Cells :
          /\ destroyHits(c, call.centerX, call.centerY, call.radius)
          /\ TerrainInit[c]
          /\ ~call.before[c]

\* The rectangle and the cell share a region of positive area.
Overlaps(rect, c) ==
    LET cell == terrainRect(c)
    IN  /\ rect.x < cell.x + cell.w /\ cell.x < rect.x + rect.w
        /\ rect.y < cell.y + cell.h /\ cell.y < rect.y + rect.h

\* C4: checkCollision answers true exactly when an occupied cell overlaps
\* the rectangle; a rectangle that lies wholly inside empty cells gets false.
C4_CollisionIffOverlap ==
    call.op = "checkCollision" =>
        (call.result <=> \E c \in Cells : blocks[c] /\ Overlaps(call.rect, c))

\* checkCollision answered true for a rectangle that overlaps no occupied
\* cell.
C4_Witness ==
    /\ call.op = "checkCollision"
    /\ call.result
    /\ ~\E c \in Cells : blocks[c] /\ Overlaps(call.rect, c)

\* The bounding square of a destroy request lies outside the grid.
DestroyOutside(centerX, centerY, radius) ==
    \/ centerX + radius < 0
    \/ centerX - radius > Columns * TERRAIN_SIZE
    \/ centerY + radius < 0
    \/ centerY - radius > Rows * TERRAIN_SIZE

\* The rectangle lies outside the grid.
RectOutside(rect) ==
    \/ rect.x + rect.w < 0
    \/ rect.x > ToFloat(Columns * TERRAIN_SIZE)
    \/ rect.y + rect.h < 0
    \/ rect.y > ToFloat(Rows * TERRAIN_SIZE)

\* C5: destroy and checkCollision visit cells of the grid only, whatever the
\* coordinates; a request wholly outside the world changes nothing and
\* finds no collision.
C5_ScanInsideGrid ==
    /\ call.op \in {"destroy", "checkCollision"} => call.scan \subseteq Cells
    /\ (call.op = "destroy" /\ DestroyOutside(call.centerX, call.centerY, call.radius))
          => blocks = call.before
    /\ (call.op = "checkCollision" /\ RectOutside(call.rect)) => ~call.result

\* destroy was called with a disc that crosses the left edge of the world
\* and visited cells.
C5_Witness ==
    /\ call.op = "destroy"
    /\ call.centerX - call.radius < 0
    /\ call.scan # {}

-----------------------------------------------------------------------------
(* Properties of the loop over the projectiles.                            *)

\* The position lies outside the world.
Outside(p) ==
    \/ p.x < 0
    \/ p.x > ToFloat(SCREEN_WIDTH)
    \/ (~IsNaN(p.y) /\ (p.y < 0 \/ p.y > ToFloat(SCREEN_HEIGHT)))

\* C6: a projectile whose position after its move is outside the world is
\* removed in that pass, and the pass changes neither the terrain nor the
\* explosions nor any worm.
C6_OutOfBoundsRemoved ==
    [][(pc = "projectiles" /\ Outside(Moved)) =>
          /\ projectiles' = RemoveAt(projectiles, it)
          /\ blocks' = blocks
          /\ explosions' = explosions
          /\ worms' = worms]_vars

\* A projectile has just been removed for leaving the world at a place
\* where its rectangle collided with the terrain.
C6_Witness ==
    /\ last = "outOfBounds"
    /\ call.op = "erase"
    /\ checkCollision(blocks, projectileRect(call.projectile))

\* C7: a projectile inside the world whose rectangle collides with the
\* terrain adds one explosion record at its position, carves the terrain
\* once with the blast radius, goes once over the worms and is removed.
C7_ImpactDetonatesOnce ==
    [][(/\ pc = "projectiles"
        /\ ~Outside(Moved)
        /\ ~IsNaN(Moved.y)
        /\ checkCollision(blocks, projectileRect(Moved))) =>
          /\ explosions' =
                Append(explosions,
                       [x |-> Moved.x, y |-> Moved.y, maxRadius |-> blastRadius,
                        duration |-> EXPLOSION_DURATION, currentFrame |-> 0])
          /\ blocks' = destroy(blocks, CastInt(Moved.x), CastInt(Moved.y), blastRadius)
          /\ worms' = hitWorms(worms, Moved.x, Moved.y)
          /\ projectiles' = RemoveAt(projectiles, it)]_vars

\* A projectile has just detonated on the terrain and hurt a worm.
C7_Witness ==
    /\ last = "impact"
    /\ Len(explosions) >= 1
    /\ \E i \in 1 .. Len(worms) : worms[i].health < STARTING_HEALTH

\* C8: every update of the projectiles shortens the fuse of each grenade by
\* the time that passed, or detonates it.
C8_FuseCountsDown ==
    [][last' = "projectileSystemUpdate" =>
          \A i \in 1 .. Len(ents) :
              ents[i].projectileData.kind = "GRENADE" =>
                  \/ Len(ents') < Len(ents)
                  \/ ents'[i].projectileData.timeToLive < ents[i].projectileData.timeToLive]_vars

\* The projectiles were updated and a grenade still has the fuse it was
\* created with.
C8_Witness ==
    /\ last = "projectileSystemUpdate"
    /\ \E i \in 1 .. Len(ents) :
          /\ ents[i].projectileData.kind = "GRENADE"
          /\ ents[i].projectileData.timeToLive = TIME_TO_LIVE

\* The point lies within the blast radius, the radius of the hole and of
\* the explosion record.
WithinBlast(dx, dy) ==
    /\ dx > -ToFloat(blastRadius) /\ dx < ToFloat(blastRadius)
    /\ dy > -ToFloat(blastRadius) /\ dy < ToFloat(blastRadius)
    /\ dx * dx + dy * dy < ToFloat(blastRadius) * ToFloat(blastRadius)

\* k is within one point of BASE_DAMAGE * (1 - distance / blastRadius), for
\* the distance whose square is d2.
NearLinearLoss(k, d2) ==
    LET R == ToFloat(blastRadius) \div 10
        B == BASE_DAMAGE \div 10
        lo == R * (BASE_DAMAGE - 1 - k)
        hi == R * (BASE_DAMAGE + 1 - k)
    IN  /\ hi > 0
        /\ B * B * d2 < hi * hi
        /\ lo < 0 \/ lo * lo < B * B * d2

\* C9: the radius within which a detonation hurts and pushes a worm is the
\* blast radius: a worm at that distance or farther is left as it was, and
\* a nearer worm loses the share of BASE_DAMAGE that falls off linearly to
\* nothing at the blast radius.
C9_InfluenceEqualsBlast ==
    [][last' = "impact" =>
          LET e == explosions'[Len(explosions')]
          IN  \A i \in 1 .. Len(worms) :
                  LET dx == worms[i].x + ToFloat(WORM_SIZE \div 2) - e.x
                      dy == worms[i].y + ToFloat(WORM_SIZE \div 2) - e.y
                  IN  IF WithinBlast(dx, dy)
                      THEN NearLinearLoss(worms[i].health - worms'[i].health,
                                          dx * dx + dy * dy)
                      ELSE worms'[i] = worms[i]]_vars

\* The first detonation of the run has just taken from a worm within the
\* blast radius more than the share that falls off to nothing at the blast
\* radius.
C9_Witness ==
    /\ last = "impact"
    /\ Len(explosions) = 1
    /\ animationStep < EXPLOSION_DURATION
    /\ \E i \in 1 .. Len(worms) :
          LET dx == worms[i].x + ToFloat(WORM_SIZE \div 2) - explosions[1].x
              dy == worms[i].y + ToFloat(WORM_SIZE \div 2) - explosions[1].y
          IN  /\ WithinBlast(dx, dy)
              /\ ~NearLinearLoss(STARTING_HEALTH - worms[i].health, dx * dx + dy * dy)

\* C10: a detonation at the very centre of a worm divides by no zero: the
\* worm loses the full BASE_DAMAGE and its velocity stays a number.
C10_ZeroDistanceDefined ==
    call.op = "hitWorms" =>
        \A i \in 1 .. Len(worms) :
            (/\ call.before[i].x + ToFloat(WORM_SIZE \div 2) = call.px
             /\ call.before[i].y + ToFloat(WORM_SIZE \div 2) = call.py)
            => /\ worms[i].health = call.before[i].health - BASE_DAMAGE
               /\ ~IsNaN(worms[i].vx)
               /\ ~IsNaN(worms[i].vy)

\* A detonation at the centre of a worm has left the worm with a velocity
\* that is not a number.
C10_Witness ==
    /\ call.op = "hitWorms"
    /\ \E i \in 1 .. Len(worms) :
          /\ call.before[i].x + ToFloat(WORM_SIZE \div 2) = call.px
          /\ call.before[i].y + ToFloat(WORM_SIZE \div 2) = call.py
          /\ IsNaN(worms[i].vx)
          /\ IsNaN(worms[i].vy)

-----------------------------------------------------------------------------
(* Properties of the damage and the knockback of a detonation.             *)

\* The offsets of worm w, as it was before the call, from the detonation.
OffsetX(w) == w.x + ToFloat(WORM_SIZE \div 2) - call.px

OffsetY(w) == w.y + ToFloat(WORM_SIZE \div 2) - call.py

\* The point is nearer to the detonation than the radius within which the
\* code damages and pushes (EXPLOSION_MAX_SIZE).
WithinInfluence(dx, dy) ==
    /\ dx > -ToFloat(damageRadius) /\ dx < ToFloat(damageRadius)
    /\ dy > -ToFloat(damageRadius) /\ dy < ToFloat(damageRadius)
    /\ dx * dx + dy * dy < ToFloat(damageRadius) * ToFloat(damageRadius)

\* k is BASE_DAMAGE * (1 - distance / damageRadius) without its fraction,
\* for the distance whose square is d2.
IsLinearLoss(k, d2) ==
    LET R == ToFloat(damageRadius) \div 10
        B == BASE_DAMAGE \div 10
    IN  /\ k >= 0 /\ k <= BASE_DAMAGE
        /\ B * B * d2 <= (R * (BASE_DAMAGE - k)) * (R * (BASE_DAMAGE - k))
        /\ k < BASE_DAMAGE =>
              B * B * d2 > (R * (BASE_DAMAGE - k - 1)) * (R * (BASE_DAMAGE - k - 1))

\* What the call took from the health of worm i.
Loss(i) == call.before[i].health - worms[i].health

\* C11: the damage of a detonation falls off linearly with the distance: a
\* worm nearer than the influence radius loses the whole part of
\* BASE_DAMAGE * (1 - distance / radius), all of BASE_DAMAGE at distance 0;
\* a worm at the radius or farther loses nothing; of two worms the nearer
\* loses at least as much; no worm gains health.
C11_DamageFallsOffLinearly ==
    call.op = "hitWorms" =>
        /\ \A i \in 1 .. Len(worms) :
              LET dx == OffsetX(call.before[i])
                  dy == OffsetY(call.before[i])
              IN  /\ Loss(i) >= 0
                  /\ IF WithinInfluence(dx, dy)
                     THEN /\ IsLinearLoss(Loss(i), dx * dx + dy * dy)
                          /\ (dx = 0 /\ dy = 0) => Loss(i) = BASE_DAMAGE
                     ELSE Loss(i) = 0
        /\ \A i, j \in 1 .. Len(worms) :
              LET dxi == OffsetX(call.before[i])
                  dyi == OffsetY(call.before[i])
                  dxj == OffsetX(call.before[j])
                  dyj == OffsetY(call.before[j])
              IN  (/\ WithinInfluence(dxi, dyi)
                   /\ WithinInfluence(dxj, dyj)
                   /\ dxi * dxi + dyi * dyi <= dxj * dxj + dyj * dyj)
                  => Loss(i) >= Loss(j)

\* A detonation has taken a part of BASE_DAMAGE, neither nothing nor all of
\* it, from a worm.
C11_Witness ==
    /\ call.op = "hitWorms"
    /\ \E i \in 1 .. Len(worms) : Loss(i) > 0 /\ Loss(i) < BASE_DAMAGE

\* C12: a detonation leaves a worm at the influence radius or farther as it
\* was: health, velocity and position are those of before.
C12_FarWormsUnchanged ==
    call.op = "hitWorms" =>
        \A i \in 1 .. Len(worms) :
            ~WithinInfluence(OffsetX(call.before[i]), OffsetY(call.before[i]))
            => worms[i] = call.before[i]

\* A detonation took place at exactly the influence radius from a worm.
C12_Witness ==
    /\ call.op = "hitWorms"
    /\ \E i \in 1 .. Len(worms) :
          /\ OffsetY(call.before[i]) = 0
          /\ OffsetX(call.before[i]) \in {-ToFloat(damageRadius), ToFloat(damageRadius)}
          /\ worms[i] = call.before[i]

-----------------------------------------------------------------------------
(* Properties of the integration and of the contact with the ground.       *)

\* C13: the integration adds gravity to vy first and then moves y by the
\* new vy: a worm that meets no terrain in its pass, and a projectile that
\* flies on, have vy = vy + GRAVITY and y = y + vy + GRAVITY afterwards.
C13_SemiImplicitEuler ==
    [][/\ (pc = "worms" /\ last' = "worm") =>
             /\ worms'[it].vy = worms[it].vy + GRAVITY
             /\ worms'[it].y = worms[it].y + worms[it].vy + GRAVITY
       /\ (pc = "projectiles" /\ last' = "fly") =>
             /\ projectiles'[it].vy = projectiles[it].vy + GRAVITY
             /\ projectiles'[it].y = projectiles[it].y + projectiles[it].vy + GRAVITY]_vars

\* In the first frame a worm that stood still has fallen by GRAVITY and has
\* the velocity GRAVITY.
C13_Witness ==
    /\ animationStep = 1
    /\ last = "worm"
    /\ \E i \in 1 .. Len(worms) :
          /\ worms[i].vy = GRAVITY
          /\ worms[i].y = ToFloat(WormStart[i][2]) + GRAVITY

\* C14: the integration moves both coordinates: in its pass a worm that
\* gets no scripted move has its x advanced by its vx, so a worm that a
\* detonation has pushed is displaced sideways in the frames that follow.
C14_IntegrationMovesX ==
    [][(/\ pc = "worms"
        /\ last' \in {"worm", "landed"}
        /\ ~(worms[it].isActive /\ animationStep % MOVE_PERIOD = 0))
       => worms'[it].x = worms[it].x + worms[it].vx]_vars

\* In the frame after the first detonation the worm it pushed sideways has
\* had its pass and is where it was created.
C14_Witness ==
    /\ pc = "explosions"
    /\ Len(explosions) = 1
    /\ explosions[1].currentFrame = 1
    /\ animationStep < MOVE_PERIOD
    /\ \E i \in 1 .. Len(worms) :
          /\ worms[i].vx # 0
          /\ worms[i].x = ToFloat(WormStart[i][1])

\* C15: the integrator takes the time step as a parameter and the
\* displacement is proportional to it: an update with deltaTime moves every
\* entity sideways by velX * deltaTime, twice as far for twice the time.
C15_DisplacementScalesWithDt ==
    [][last' = "physicsSystemUpdate" =>
          /\ Len(ents') = Len(ents)
          /\ \A i \in 1 .. Len(ents) :
                ents'[i].position.x =
                   ents[i].position.x + (ents[i].physics.velX * call'.deltaTime) \div FP]_vars

\* The physics was updated for two units of time and an entity with a
\* velocity is where it was created.
C15_Witness ==
    /\ last = "physicsSystemUpdate"
    /\ call.deltaTime = 2 * FP
    /\ \E i \in 1 .. Len(ents) :
          /\ ents[i].physics.velX # 0
          /\ ents[i].position.x \in {10000, 25000}

\* The occupied cells whose columns worm w stands over.
CellsUnder(w) ==
    {c \in Cells : /\ blocks[c]
                   /\ terrainRect(c).x < w.x + ToFloat(WORM_SIZE)
                   /\ w.x < terrainRect(c).x + ToFloat(TERRAIN_SIZE)}

\* The bottom edge of worm w is on the top edge of an occupied cell.
RestsOnSurface(w) ==
    \E c \in CellsUnder(w) : terrainRect(c).y = w.y + ToFloat(WORM_SIZE)

\* C16: the resolution of a contact with the ground leaves the worm exactly
\* on the surface: its bottom edge is on the top edge of the terrain it
\* rests on, and its vy is 0.
C16_SettlesOnSurface ==
    [][(pc = "worms" /\ last' = "landed") =>
          /\ RestsOnSurface(worms'[it])
          /\ ~(worms[it].isActive /\ animationStep % MOVE_PERIOD = 0)
                => worms'[it].vy = 0]_vars

\* A worm has just been lifted out of the terrain and its bottom edge is
\* above the surface, on no top edge of a cell.
C16_Witness ==
    /\ last = "landed"
    /\ \E i \in 1 .. Len(worms) :
          /\ worms[i].vy = 0 /\ worms[i].vyG = 0
          /\ ~RestsOnSurface(worms[i])
          /\ \E c \in CellsUnder(worms[i]) :
                /\ terrainRect(c).y > worms[i].y + ToFloat(WORM_SIZE)
                /\ terrainRect(c).y < worms[i].y + ToFloat(WORM_SIZE) + LIFT_STEP

\* Worm w lies wholly inside solid terrain: every cell of the grid that its
\* rectangle overlaps is occupied, and there is one.
Embedded(w) ==
    /\ \E c \in Cells : Overlaps(wormRect(w), c)
    /\ \A c \in Cells : Overlaps(wormRect(w), c) => blocks[c]

\* C17: the loop that lifts a worm out of the terrain has a cap: for a worm
\* embedded in solid terrain it stops at the cap, with the worm still in
\* the terrain, instead of displacing it all the way out.
C17_LiftIsCapped ==
    (call.op = "updateWorm" /\ Embedded(call.before))
    => checkCollision(blocks, wormRect(worms[1]))

\* A worm placed wholly inside solid terrain has been lifted clear of it, by
\* more than its own height, in one pass.
C17_Witness ==
    /\ call.op = "updateWorm"
    /\ Embedded(call.before)
    /\ ~checkCollision(blocks, wormRect(worms[1]))
    /\ call.lifts > WORM_SIZE

-----------------------------------------------------------------------------
(* Properties of the rotation of the turns.                                *)

\* C18: in a frame whose count is a multiple of TURN_PERIOD the active
\* index moves on by one modulo the number of worms, the worm of the new
\* index alone is active and the flag firing is cleared; in every other
\* frame the active index and the active flags stay as they are.
C18_TurnRotation ==
    [][last' = "script" =>
          IF animationStep' % TURN_PERIOD = 0
          THEN /\ currentWorm' = (currentWorm + 1) % Len(worms)
               /\ \A i \in 1 .. Len(worms) : worms'[i].isActive <=> (i = currentWorm' + 1)
               /\ ~firing'
          ELSE /\ currentWorm' = currentWorm
               /\ \A i \in 1 .. Len(worms) : worms'[i].isActive = worms[i].isActive]_vars

\* After as many switches as there are worms the first worm is active again.
C18_Witness ==
    /\ animationStep = NumWorms * TURN_PERIOD
    /\ call.sinceSwitch = 0
    /\ currentWorm = 0
    /\ worms[1].isActive
    /\ ~worms[NumWorms].isActive
    /\ ~firing

\* C19: the counter of the frames of a turn is set back to zero when it
\* reaches TURN_PERIOD: it is always between 0 and TURN_PERIOD and the
\* increment never overflows.
C19_CounterBounded ==
    /\ animationStep >= 0
    /\ animationStep <= TURN_PERIOD
    /\ pc # "trap"

\* The counter has grown to the largest int and the increment has wrapped
\* it around.
C19_Witness ==
    /\ last = "script"
    /\ animationStep = -IntMax - 1

\* C20: the rotation never ends and is fair: as long as frames keep
\* happening every worm is active again and again, and no worm waits longer
\* than NumWorms * TURN_PERIOD frames for its next turn.
C20_FairRoundRobin ==
    /\ [](\A i \in 1 .. NumWorms : call.idle[i] <= NumWorms * TURN_PERIOD)
    /\ \A i \in 1 .. NumWorms : []<>(pc = "trap" \/ worms[i].isActive)

\* After the wrap of the counter the turn has come round to the first worm.
C20_Witness ==
    /\ animationStep < 0
    /\ call.sinceSwitch = 0
    /\ currentWorm = 0
    /\ worms[1].isActive

-----------------------------------------------------------------------------
(* Properties of the decisions of a frame and of the order of its steps.   *)

\* The worm whose turn it is.
ActiveWorm == worms[currentWorm + 1]

\* C21: only the active worm takes a decision: the worm of the current
\* index is the one active worm; a projectile is created only at the centre
\* of that worm with the velocity of its aim angle; no step changes the x
\* of a worm that is not active or gives it the velocity of a jump (vy =
\* -JUMP_SPEED with no gravity added since).
C21_OnlyActiveWormDecides ==
    [][/\ \A i \in 1 .. Len(worms) : worms[i].isActive <=> (i = currentWorm + 1)
       /\ projectiles' # projectiles /\ Len(projectiles') > Len(projectiles) =>
             /\ Len(projectiles') = Len(projectiles) + 1
             /\ projectiles'[Len(projectiles')] =
                   [x  |-> ActiveWorm.x + ToFloat(WORM_SIZE \div 2),
                    y  |-> ActiveWorm.y + ToFloat(WORM_SIZE \div 2),
                    vx |-> projectileVelocity(ActiveWorm.aimAngle)[1],
                    vy |-> projectileVelocity(ActiveWorm.aimAngle)[2]]
       /\ \A i \in 1 .. Len(worms) :
             ~worms[i].isActive =>
                 /\ worms'[i].x = worms[i].x
                 /\ (worms'[i].vy = -JUMP_SPEED /\ worms'[i].vyG = 0) =>
                       (worms[i].vy = -JUMP_SPEED /\ worms[i].vyG = 0)]_vars

\* In the turn of the second worm that worm has moved, while the third
\* worm, which has had no turn, is where it was created.
C21_Witness ==
    /\ currentWorm = 1
    /\ worms[2].isActive
    /\ worms[2].x # ToFloat(WormStart[2][1])
    /\ worms[3].x = ToFloat(WormStart[3][1])
    /\ Len(projectiles) >= 1

\* A collision has been resolved in the frame that is running: a worm that
\* had its pass was lifted out of the terrain (its vy was set to 0 after the
\* gravity of the frame was added), or a projectile has detonated (its
\* explosion record has not aged yet).
ResolvedThisFrame ==
    \/ \E j \in 1 .. Len(worms) :
          /\ pc = "worms" => j < it
          /\ worms[j].vyG = 0
    \/ \E j \in 1 .. Len(explosions) : explosions[j].currentFrame = 0

\* C22: in a frame every worm and every projectile is integrated before any
\* collision is resolved: when the loop is about to integrate a worm or a
\* projectile, no worm has been lifted out of the terrain and no projectile
\* has detonated in that frame.
C22_IntegrationBeforeResolution ==
    pc \in {"worms", "projectiles"} => ~ResolvedThisFrame

\* The loop is about to integrate a projectile in a frame in which it has
\* lifted a worm out of the terrain.
C22_Witness ==
    /\ pc = "projectiles"
    /\ it <= Len(projectiles)
    /\ \E j \in 1 .. Len(worms) : worms[j].vyG = 0

-----------------------------------------------------------------------------
(* Properties of the explosion records.                                    *)

\* The record is one frame short of its duration.
InLastFrame(e) == e.currentFrame + 1 >= EXPLOSION_DURATION

\* The records that are not in their last frame.
Survivors(es) == SelectSeq(es, LAMBDA e : ~InLastFrame(e))

\* C23: a record is created with the counter 0 and the duration
\* EXPLOSION_DURATION; the loop of a frame adds exactly 1 to every counter
\* and removes the records whose counter reaches the duration, so that
\* after it every record has 0 < currentFrame < duration; and as long as
\* frames keep happening every record is removed in the end.
C23_RecordsAgeAndExpire ==
    /\ [][/\ last' = "impact" =>
               /\ explosions'[Len(explosions')].currentFrame = 0
               /\ explosions'[Len(explosions')].duration = EXPLOSION_DURATION
          /\ last' = "explosions" =>
               /\ Len(explosions') = Len(Survivors(explosions))
               /\ \A i \in 1 .. Len(explosions') :
                     /\ explosions'[i] =
                           [Survivors(explosions)[i] EXCEPT
                               !.currentFrame = Survivors(explosions)[i].currentFrame + 1]
                     /\ explosions'[i].currentFrame > 0
                     /\ explosions'[i].currentFrame < explosions'[i].duration]_vars
    /\ (explosions # << >>) ~> (explosions = << >>)

\* The loop of a frame has removed a record in its last frame and kept a
\* younger one.
C23_Witness ==
    /\ call.op = "updateExplosions"
    /\ Len(call.before) = 2
    /\ call.before[1].currentFrame = EXPLOSION_DURATION - 1
    /\ Len(explosions) = 1
    /\ explosions[1].currentFrame < EXPLOSION_DURATION - 1

\* C24: the effects of an explosion happen once, when its record is
\* created: the loop over the explosions, which ages and removes the
\* records, changes no cell of the terrain and no worm, and the terrain and
\* the health of the worms change in no step but the one that appends a
\* record.
C24_EffectsOnlyAtCreation ==
    [][/\ pc = "explosions" => (blocks' = blocks /\ worms' = worms)
       /\ (\/ blocks' # blocks
           \/ \E i \in 1 .. Len(worms) : worms'[i].health # worms[i].health)
          => /\ Len(explosions') = Len(explosions) + 1
             /\ explosions'[Len(explosions')].currentFrame = 0]_vars

\* The record of a detonation that carved the terrain and hurt a worm has
\* just been removed at the end of its life.
C24_Witness ==
    /\ last = "explosions"
    /\ explosions = << >>
    /\ animationStep >= EXPLOSION_DURATION
    /\ blocks # TerrainInit
    /\ \E i \in 1 .. Len(worms) : worms[i].health < STARTING_HEALTH
    /\ \A i \in 1 .. Len(worms) : worms[i].health > STARTING_HEALTH - BASE_DAMAGE

-----------------------------------------------------------------------------
(* Properties of the creation of the bodies.                               *)

\* The position lies inside the world.
InsideWorld(pos) ==
    /\ pos.x >= 0 /\ pos.x <= ToFloat(SCREEN_WIDTH)
    /\ pos.y >= 0 /\ pos.y <= ToFloat(SCREEN_HEIGHT)

\* C25: the operation that creates a projectile rejects a position outside
\* the world: no entity of the simulation was created outside the world,
\* so the update of the physics never gets one.
C25_CreationRejectsOutside ==
    \A i \in 1 .. Len(ents) : InsideWorld(ents[i].position)

\* The physics has been updated with an entity that was created to the
\* left of the world.
C25_Witness ==
    /\ last = "physicsSystemUpdate"
    /\ \E i \in 1 .. Len(ents) : ents[i].position.x < 0

-----------------------------------------------------------------------------
(* Properties of the loop that lifts a worm out of the terrain.            *)

\* The y of the worm of the call after its integration, where the loop
\* starts.
ContactY == integrateWorm(call.before).y

\* C26: the loop that lifts a worm ends for every worm and terrain, also for
\* a worm wholly inside solid terrain: every pass raises the worm by
\* LIFT_STEP, the loop stops at the first position that is clear, and it
\* makes no more passes than it takes to raise the worm above the top of
\* the grid, about y + WORM_SIZE of them.
C26_LiftTerminates ==
    call.op = "updateWorm" =>
        IF call.hit
        THEN /\ call.lifts >= 1
             /\ call.lifts * LIFT_STEP <= ContactY + ToFloat(WORM_SIZE) + LIFT_STEP
             /\ worms[1].y = ContactY - call.lifts * LIFT_STEP
             /\ ~checkCollision(blocks, wormRect(worms[1]))
             /\ \A k \in 0 .. call.lifts - 1 :
                   checkCollision(blocks,
                       FRect(worms[1].x, ContactY - k * LIFT_STEP,
                             ToFloat(WORM_SIZE), ToFloat(WORM_SIZE)))
        ELSE /\ call.lifts = 0
             /\ worms[1].y = ContactY

\* The loop has ended after raising a worm, in one pass of the worm loop,
\* by more than twice its height, well below the top of the grid.
C26_Witness ==
    /\ call.op = "updateWorm"
    /\ call.hit
    /\ call.lifts >= 2 * WORM_SIZE
    /\ worms[1].y > 0
    /\ ~checkCollision(blocks, wormRect(worms[1]))

\* The rectangle of the worm of the running pass at the y the pass leaves
\* it with; the scripted move that may follow the resolution in the pass
\* changes x only.
ResolvedRect == FRect(worms[it].x, worms'[it].y, ToFloat(WORM_SIZE), ToFloat(WORM_SIZE))

\* The rectangle of the worm of the running pass after its integration.
IntegratedRect ==
    FRect(worms[it].x, worms[it].y + worms[it].vy + GRAVITY,
          ToFloat(WORM_SIZE), ToFloat(WORM_SIZE))

\* C27: right after the resolution of its contact a worm that was
\* intersecting the terrain intersects no occupied cell and has vy = 0 (the
\* jump of the script may follow in the same pass); a worm that was not
\* intersecting keeps the position and the vy of its integration.
C27_ResolutionClearsAndStops ==
    [][(pc = "worms" /\ last' \in {"worm", "landed"}) =>
          IF checkCollision(blocks, IntegratedRect)
          THEN /\ last' = "landed"
               /\ ~checkCollision(blocks, ResolvedRect)
               /\ ~\E c \in Cells : blocks[c] /\ Overlaps(ResolvedRect, c)
               /\ worms'[it].vy \in {0, -JUMP_SPEED}
               /\ worms'[it].vy = -JUMP_SPEED =>
                     (worms[it].isActive /\ animationStep % MOVE_PERIOD = 0)
          ELSE /\ last' = "worm"
               /\ worms'[it].y = worms[it].y + worms[it].vy + GRAVITY
               /\ worms'[it].vy = worms[it].vy + GRAVITY]_vars

\* A worm has just been lifted out of terrain that a detonation had carved
\* and stands clear of it with vy = 0.
C27_Witness ==
    /\ last = "landed"
    /\ blocks # TerrainInit
    /\ \E i \in 1 .. Len(worms) :
          /\ worms[i].vy = 0 /\ worms[i].vyG = 0
          /\ worms[i].health < STARTING_HEALTH
          /\ ~checkCollision(blocks, wormRect(worms[i]))

-----------------------------------------------------------------------------
(* Properties of the knockback and of the loop over the worms of a         *)
(* detonation.                                                             *)

Abs(n) == IF n < 0 THEN -n ELSE n

\* What the call added to the velocity of worm i, without the upward boost.
PushX(i) == worms[i].vx - call.before[i].vx

PushY(i) == worms[i].vy - call.before[i].vy + UPWARD_BOOST

\* KNOCKBACK * (1 - distance / damageRadius), to the hundredth below.
Magnitude(distance) ==
    (KNOCKBACK * (ToFloat(damageRadius) - distance)) \div ToFloat(damageRadius)

\* C28: a worm at a distance d from a detonation, 0 < d < influence radius,
\* is pushed by KNOCKBACK * (1 - d / radius) along the unit vector from the
\* detonation to the worm, and UPWARD_BOOST is taken from its vy: each
\* component of the push points away from the centre, the push is parallel
\* to the offset of the worm and has that magnitude (to the hundredths the
\* model computes with); a worm directly to the right of the centre gets a
\* positive change of vx, of that magnitude, and a change of vy of exactly
\* -UPWARD_BOOST.
C28_KnockbackAwayFromCentre ==
    call.op = "hitWorms" =>
        \A i \in 1 .. Len(worms) :
            LET dx == OffsetX(call.before[i])
                dy == OffsetY(call.before[i])
            IN  (/\ WithinInfluence(dx, dy)
                 /\ dx # 0 \/ dy # 0
                 /\ ~IsNaN(call.before[i].vx)
                 /\ ~IsNaN(call.before[i].vy))
                => LET dLo == IsqrtFrom(dx * dx + dy * dy, 0, ToFloat(damageRadius))
                       mLo == Magnitude(dLo + 1) - 2
                       mHi == Magnitude(dLo) + 1
                       m2  == PushX(i) * PushX(i) + PushY(i) * PushY(i)
                   IN  /\ ~IsNaN(worms[i].vx) /\ ~IsNaN(worms[i].vy)
                       /\ dx > 0 => PushX(i) >= 0
                       /\ dx < 0 => PushX(i) <= 0
                       /\ dx = 0 => PushX(i) = 0
                       /\ dy > 0 => PushY(i) >= 0
                       /\ dy < 0 => PushY(i) <= 0
                       /\ dy = 0 => PushY(i) = 0
                       /\ Abs(PushX(i) * dy - PushY(i) * dx) <= Abs(dx) + Abs(dy)
                       /\ m2 <= mHi * mHi
                       /\ mLo > 0 => m2 >= mLo * mLo
                       /\ (dy = 0 /\ dx > 0) =>
                             /\ PushX(i) > 0
                             /\ PushX(i) = Magnitude(dx)
                             /\ worms[i].vy = call.before[i].vy - UPWARD_BOOST

\* A detonation directly to the left of a worm, nearer than the radius, has
\* pushed the worm to the right and taken UPWARD_BOOST from its vy.
C28_Witness ==
    /\ call.op = "hitWorms"
    /\ \E i \in 1 .. Len(worms) :
          /\ OffsetY(call.before[i]) = 0
          /\ OffsetX(call.before[i]) > 0
          /\ OffsetX(call.before[i]) < ToFloat(damageRadius)
          /\ ~IsNaN(call.before[i].vx)
          /\ worms[i].vx > call.before[i].vx
          /\ worms[i].vy = call.before[i].vy - UPWARD_BOOST

\* The orders in which the loop could go over n worms.
Orders(n) == {o \in [1 .. n -> 1 .. n] : \A i, j \in 1 .. n : o[i] = o[j] => i = j}

RECURSIVE HitInOrder(_, _, _, _, _)
\* The worms after the loop body has been applied to them one after the
\* other in the order o, from its k-th place on, each pass reading the
\* worms as the passes before it left them.
HitInOrder(ws, o, k, px, py) ==
    IF k > Len(ws) THEN ws
    ELSE HitInOrder([ws EXCEPT ![o[k]] = hitWorm(ws[o[k]], px, py)], o, k + 1, px, py)

\* C29: a detonation changes the position of no worm, so every distance is
\* that of the positions before it, and what a worm loses and how it is
\* pushed does not depend on the order in which the loop takes the worms.
C29_PositionsFixedOrderFree ==
    call.op = "hitWorms" =>
        /\ \A i \in 1 .. Len(worms) :
              /\ worms[i].x = call.before[i].x
              /\ worms[i].y = call.before[i].y
        /\ \A o \in Orders(Len(worms)) :
              HitInOrder(call.before, o, 1, call.px, call.py) = worms

\* One detonation has hurt two worms, which are where they were.
C29_Witness ==
    /\ call.op = "hitWorms"
    /\ \E i, j \in 1 .. Len(worms) :
          /\ i < j
          /\ Loss(i) > 0 /\ Loss(j) > 0
          /\ worms[i].x = call.before[i].x /\ worms[i].y = call.before[i].y
          /\ worms[j].x = call.before[j].x /\ worms[j].y = call.before[j].y

\* k is an integer nearest to BASE_DAMAGE * (1 - d / damageRadius) for a
\* distance d between the hundredth below and the hundredth above the
\* distance whose square is d2.
IsNearestLoss(k, d2) ==
    LET dLo == IsqrtFrom(d2, 0, ToFloat(damageRadius))
        R   == ToFloat(damageRadius)
    IN  /\ (2 * (BASE_DAMAGE - k) - 1) * R <= 2 * BASE_DAMAGE * (dLo + 1)
        /\ 2 * BASE_DAMAGE * dLo <= (2 * (BASE_DAMAGE - k) + 1) * R

\* C30: what a detonation takes from the health of a worm within the radius
\* is BASE_DAMAGE * (1 - d / radius) rounded to the nearest integer.
C30_DamageRoundedToNearest ==
    call.op = "hitWorms" =>
        \A i \in 1 .. Len(worms) :
            LET dx == OffsetX(call.before[i])
                dy == OffsetY(call.before[i])
            IN  WithinInfluence(dx, dy) => IsNearestLoss(Loss(i), dx * dx + dy * dy)

\* A detonation 3 pixels from the centre of a worm has taken 28 from its
\* health, the whole part of 28.875.
C30_Witness ==
    /\ call.op = "hitWorms"
    /\ \E i \in 1 .. Len(worms) :
          /\ OffsetX(call.before[i]) = 3 * FP
          /\ OffsetY(call.before[i]) = 0
          /\ Loss(i) = BASE_DAMAGE - 2

-----------------------------------------------------------------------------
(* Properties of the jump.                                                 *)

\* The worm of the pass that has just run got the velocity of a jump in it.
Jumped == worms'[1].vy = -JUMP_SPEED /\ worms'[1].vyG = 0

\* C31: a jump takes effect only for a worm that stands on the ground: the
\* pass in which a worm gets the velocity of a jump has drawn the jump, has
\* found the worm in the terrain and has lifted it, and leaves it less than
\* LIFT_STEP above the terrain; a worm that its pass finds in the air, also
\* at the apex of a jump where the hundredths of its vy are 0, leaves the
\* pass with the vy of its integration whatever the script draws.
C31_JumpOnlyFromGround ==
    [][last' \in {"worm", "landed"} =>
          /\ Jumped =>
                /\ call'.randomMove = 2
                /\ last' = "landed"
                /\ checkCollision(blocks,
                       FRect(worms'[1].x, worms'[1].y + LIFT_STEP,
                             ToFloat(WORM_SIZE), ToFloat(WORM_SIZE)))
          /\ last' = "worm" => worms'[1].vy = worms[1].vy + GRAVITY]_vars

\* The script has drawn a jump for a worm at the apex of its jump, 30
\* frames after it left the ground, and the worm has kept its vy.
C31_Witness ==
    /\ call.op = "pass"
    /\ call.randomMove = 2
    /\ last = "worm"
    /\ worms[1].vy = 0
    /\ worms[1].vyG = JUMP_SPEED \div GRAVITY

-----------------------------------------------------------------------------
(* Properties of the flight of a projectile.                               *)

\* C32: the integration changes the velocity of a body through gravity on
\* vy only: the vx of a projectile that flies on is after its pass what it
\* was before, from its creation to its removal.
C32_FlightKeepsVx ==
    [][(pc = "projectiles" /\ last' = "fly") =>
          projectiles'[it].vx = projectiles[it].vx]_vars

\* A projectile shot to the right is in its second frame of flight faster
\* to the right than it was shot.
C32_Witness ==
    /\ last = "fly"
    /\ \E i \in 1 .. Len(projectiles) :
          /\ projectiles[i].vx = projectileVelocity(0)[1] + 2 * WIND
          /\ projectiles[i].vy = projectileVelocity(0)[2] + 2 * GRAVITY

-----------------------------------------------------------------------------
(* Properties of the active worm, the shots of a turn and the health.      *)

\* C33: in every state exactly one worm is active, it is the worm of the
\* current index, the index is one of the vector of the worms, and the
\* number of worms is the one main created.
C33_OneActiveWorm ==
    /\ Len(worms) = NumWorms
    /\ currentWorm \in 0 .. Len(worms) - 1
    /\ Cardinality({i \in 1 .. Len(worms) : worms[i].isActive}) = 1
    /\ worms[currentWorm + 1].isActive

\* The last worm of the vector is in the last frame of its turn, the one
\* before the index goes back to the first worm.
C33_Witness ==
    /\ currentWorm = NumWorms - 1
    /\ worms[NumWorms].isActive
    /\ ~worms[1].isActive
    /\ call.sinceSwitch = TURN_PERIOD - 1

====
